---- MODULE Spec2Model ----
(***************************************************************************)
(* Bar Osc: the menu bar application (src/bar_osc.py) driving the single   *)
(* Oscillator instance.  The application runs on the rumps main loop: one  *)
(* callback at a time; the octave walks block that loop while they run,    *)
(* and an exception a callback raises is logged by the loop, which goes    *)
(* on.  The Oscillator class (module oscillator) follows its written       *)
(* contract: play opens the one stream handle from Idle and raises when    *)
(* the audio device cannot be acquired, stop releases the handle, a play   *)
(* while Streaming or a stop while Idle is a no-op.                        *)
(*                                                                         *)
(* Numbers.  Python floats are IEEE-754 doubles; a positive double is      *)
(* modelled exactly as [e, m]: value = M * 2^(e-52), M the 53-bit          *)
(* significand held in four 14-bit limbs m = <<l1,l2,l3,l4>> (l1 lowest),  *)
(* 2^52 <= M < 2^53.  A Python number carries its type: py = "int" or      *)
(* "float".  Slider values and logarithms are fixed-point integers.        *)
(***************************************************************************)
EXTENDS Integers, Sequences, FiniteSets, TLC

\* ------------------------------------------------------------ doubles ----

RECURSIVE Pow2Int(_)
Pow2Int(k) == IF k = 0 THEN 1 ELSE 2 * Pow2Int(k - 1)

\* limb base 2^14
B == Pow2Int(14)

RECURSIVE FloorLog2(_)
FloorLog2(n) == IF n < 2 THEN 0 ELSE 1 + FloorLog2(n \div 2)

\* the double n / 2^q, n a positive integer below 2^25 (exactly representable)
FromDyadic(n, q) ==
    LET k   == FloorLog2(n)
        top == n * Pow2Int(24 - k)
    IN  [e |-> k - q, m |-> <<0, 0, top % B, top \div B>>]

FromInt(n) == FromDyadic(n, 0)

\* a <= b on positive doubles
FLe(a, b) ==
    \/ a.e < b.e
    \/ /\ a.e = b.e
       /\ \/ a.m[4] < b.m[4]
          \/ a.m[4] = b.m[4] /\ a.m[3] < b.m[3]
          \/ a.m[4] = b.m[4] /\ a.m[3] = b.m[3] /\ a.m[2] < b.m[2]
          \/ a.m[4] = b.m[4] /\ a.m[3] = b.m[3] /\ a.m[2] = b.m[2] /\ a.m[1] <= b.m[1]

\* column k (0..6) of the schoolbook product of two 4-limb significands
Column(x, y, k) ==
    LET idx == {i \in 0..3 : k - i \in 0..3}
        RECURSIVE Sum(_)
        Sum(S) == IF S = {} THEN 0
                  ELSE LET i == CHOOSE j \in S : TRUE
                       IN  x[i + 1] * y[k - i + 1] + Sum(S \ {i})
    IN  Sum(idx)

\* the 8 limbs of the exact 106-bit product of two significands
RECURSIVE Carry(_, _, _, _)
Carry(x, y, k, c) ==
    IF k = 7 THEN <<c>>
    ELSE LET t == Column(x, y, k) + c
         IN  <<t % B>> \o Carry(x, y, k + 1, t \div B)

Product(x, y) == Carry(x, y, 0, 0)

\* significand + 1, as limbs (the carry out of the top limb stays in it)
Incr(q) ==
    LET c1 == IF q[1] + 1 = B THEN 1 ELSE 0
        c2 == IF q[2] + c1 = B THEN 1 ELSE 0
        c3 == IF q[3] + c2 = B THEN 1 ELSE 0
    IN  <<(q[1] + 1) % B, (q[2] + c1) % B, (q[3] + c2) % B, q[4] + c3>>

\* a * b on positive doubles: the exact product rounded to nearest, ties to even
FMul(a, b) ==
    LET p    == Product(a.m, b.m)
        big  == p[8] >= 128                 \* product significand >= 2
        r    == IF big THEN 11 ELSE 10      \* shift 42 + r bits
        lo   == Pow2Int(r)
        hi   == Pow2Int(14 - r)
        limb(j) == (p[j + 3] \div lo) + (p[j + 4] % lo) * hi
        q    == <<limb(1), limb(2), limb(3), limb(4)>>
        half == (p[4] \div Pow2Int(r - 1)) % 2 = 1
        stky == (p[4] % Pow2Int(r - 1) # 0) \/ p[3] # 0 \/ p[2] # 0 \/ p[1] # 0
        up   == half /\ (stky \/ q[1] % 2 = 1)
        q1   == IF up THEN Incr(q) ELSE q
        e0   == a.e + b.e + (IF big THEN 1 ELSE 0)
    IN  IF q1[4] = 2048 THEN [e |-> e0 + 1, m |-> <<0, 0, 0, 1024>>]
        ELSE [e |-> e0, m |-> q1]

\* round(d) for a double 1 <= d < 2^24: nearest integer, ties to even (Python 3)
Round(d) ==
    LET top  == d.m[4] * B + d.m[3]         \* the high 25 bits of the significand
        sh   == 24 - d.e
        n    == top \div Pow2Int(sh)
        rem  == top % Pow2Int(sh)
        half == Pow2Int(sh - 1)
        low  == d.m[2] # 0 \/ d.m[1] # 0
    IN  IF rem > half \/ (rem = half /\ low) THEN n + 1
        ELSE IF rem = half THEN (IF n % 2 = 0 THEN n ELSE n + 1)
        ELSE n

\* -------------------------------------- log2 and 2^y, in fixed point ----
(***************************************************************************)
(* math.log2 and math.pow are computed to 24 fractional bits (the doubles  *)
(* of libm carry 52): a slider value is an integer count of 2^-13 slider   *)
(* units, an exponent an integer count of 2^-24.  Q28 is 28 fractional     *)
(* bits.                                                                   *)
(***************************************************************************)

\* floor(a * b / 2^28) for 0 <= a, b < 2^29
QMul(a, b) ==
    LET a1 == a \div 32768
        a0 == a % 32768
        b1 == b \div 32768
        b0 == b % 32768
    IN  a1 * b1 * 4 + (a1 * b0 + a0 * b1 + (a0 * b0) \div 32768) \div 8192

\* the first `bits` fractional bits of log2(x / 2^28), 1 <= x / 2^28 < 2
RECURSIVE Log2Frac(_, _)
Log2Frac(x, bits) ==
    IF bits = 0 THEN 0
    ELSE LET y == QMul(x, x)
         IN  IF y >= 536870912
             THEN Pow2Int(bits - 1) + Log2Frac(y \div 2, bits - 1)
             ELSE Log2Frac(y, bits - 1)

\* math.log2(d) of a double d >= 1, in units of 2^-24
Log2(d) ==
    LET x == d.m[4] * 262144 + d.m[3] * 16 + d.m[2] \div 1024
    IN  d.e * 16777216 + Log2Frac(x, 24)

\* e^t = sum t^k / k!, t and the result in Q28, 0 <= t < 1
RECURSIVE ExpSeries(_, _, _)
ExpSeries(t, term, k) ==
    IF term = 0 THEN 0
    ELSE term + ExpSeries(t, QMul(term, t) \div k, k + 1)

\* math.pow(2, y), y >= 0 in units of 2^-24, as a double
PowTwo(y) ==
    LET i  == y \div 16777216
        g  == (y % 16777216) * 16                \* fraction, Q28
        t  == QMul(g, 186065279)                 \* g * ln 2
        ex == ExpSeries(t, 268435456, 1)         \* 2^g in [1, 2), Q28
        s  == IF ex >= 536870912 THEN 536870911 ELSE ex
    IN  [e |-> i, m |-> <<0, (s % 16) * 1024, (s \div 16) % B, s \div 262144>>]

\* --------------------------------------------------- Python numbers ----

PyInt(n) == [py |-> "int", e |-> FromInt(n).e, m |-> FromInt(n).m]

PyFloat(d) == [py |-> "float", e |-> d.e, m |-> d.m]

\* ---------------------------------------------------- helper functions ----

\* the double 1e-4 is taken as 1/10000
\* value * 1e-4: a slider value (units of 2^-13) to an exponent (units of 2^-24)
TimesTenToMinus4(value) ==
    LET i == value \div 81920000
        r == value % 81920000
    IN  i * 16777216 + (r \div 10000) * 2048 + ((r % 10000) * 2048) \div 10000

\* l * 1e4: a logarithm (units of 2^-24) to a slider value (units of 2^-13)
TimesTenToFour(l) == (l \div B) * 80000 + ((l % B) * 10000) \div 2048

\* round(math.pow(2, value * 1e-4))
slider_to_freq(value) == Round(PowTwo(TimesTenToMinus4(value)))

\* the natural logarithm taken for the base-2 one (ln 2 is about 9/13)
freq_to_slider_ln(freq) == TimesTenToFour((Log2(freq) \div 13) * 9)

\* math.log2(freq) * 1e4
freq_to_slider(freq) == TimesTenToFour(Log2(freq))

\* the tenths of d cut off, not rounded
RoundTenths_trunc(d) ==
    LET t1 == d.m[1] * 10
        t2 == d.m[2] * 10 + t1 \div B
        t3 == d.m[3] * 10 + t2 \div B
        t4 == d.m[4] * 10 + t3 \div B
    IN  t4 \div Pow2Int(10 - d.e)

\* round(d, 1) * 10 for a double 1 <= d < 1024: the tenth nearest to the exact
\* binary value, an exact tie going to the even tenth
RoundTenths(d) ==
    LET t1 == d.m[1] * 10
        t2 == d.m[2] * 10 + t1 \div B
        t3 == d.m[3] * 10 + t2 \div B
        t4 == d.m[4] * 10 + t3 \div B         \* 10 * M = t4 : t3%B : t2%B : t1%B
        r  == 10 - d.e                        \* fraction bits held in t4
        n    == t4 \div Pow2Int(r)
        rem  == t4 % Pow2Int(r)
        half == Pow2Int(r - 1)
        low  == t3 % B # 0 \/ t2 % B # 0 \/ t1 % B # 0
    IN  IF rem > half \/ (rem = half /\ low) THEN n + 1
        ELSE IF rem = half THEN (IF n % 2 = 0 THEN n ELSE n + 1)
        ELSE n

\* the double 1e-3 = 0x1.0624dd2f1a9fcp-10
Milli == [e |-> -10, m |-> <<10748, 3014, 9437, 1048>>]

\* freq an int: "Frequency: 440 Hz", "Frequency: 15.0 kHz"
freq_title_format(freq) ==
    IF freq < 10000 THEN "Frequency: " \o ToString(freq) \o " Hz"
    ELSE LET t == RoundTenths(FMul(FromInt(freq), Milli))
         IN  "Frequency: " \o ToString(t \div 10) \o "." \o ToString(t % 10) \o " kHz"

\* -round(20 * math.log10(amp), 1) * 10 for 0 < amp <= 1, amp in thousandths
MinusDeciBelTenths(amp) ==
    LET t  == (Log2(FromInt(1000)) - Log2(FromInt(amp))) \div 16   \* -log2(amp), Q20
        d  == t * 60 + ((t \div 8) * 206) \div 125                  \* * 200 / log2(10)
    IN  (d + 524288) \div 1048576

\* round(20 * math.log10(amp), 1) * 10 for amp >= 1, amp in thousandths
PlusDeciBelTenths(amp) ==
    LET t  == (Log2(FromInt(amp)) - Log2(FromInt(1000))) \div 16   \* log2(amp), Q20
        d  == t * 60 + ((t \div 8) * 206) \div 125
    IN  (d + 524288) \div 1048576

\* math.log10(amp) raises ValueError, math domain error
Log10Raises(amp) == amp <= 0

\* the test that never finds the rounded value zero
DeciBelIsZero_never(amp) == FALSE

\* dBFS == 0.0, true of both float zeros
DeciBelIsZero(amp) ==
    IF amp < 1000 THEN MinusDeciBelTenths(amp) = 0 ELSE PlusDeciBelTenths(amp) = 0

\* str of the float round(20 * math.log10(amp), 1): the logarithm of an
\* amp below 1.0 is negative and keeps its sign when it rounds to zero
DeciBelStr(amp) ==
    LET t == IF amp < 1000 THEN MinusDeciBelTenths(amp) ELSE PlusDeciBelTenths(amp)
    IN  (IF amp < 1000 THEN "-" ELSE "") \o ToString(t \div 10) \o "." \o ToString(t % 10)

\* amp in thousandths; the sentinel character U+221E is written inf
amp_title_format(amp) ==
    LET dBFS == IF Log10Raises(amp) THEN "-inf"          \* except ValueError
                ELSE IF DeciBelIsZero(amp) THEN "-0.0"
                ELSE DeciBelStr(amp)
    IN  "Volume: " \o dBFS \o " dBFS"

\* ------------------------------------------------------- the program ----

WaveTypes == {"sine_wave", "square_wave", "white_noise", "pink_noise"}

\* the next double above 2 ** (1/3)
CubeRootTwo_above == [e |-> 0, m |-> <<12940, 9781, 2607, 1290>>]

\* 2 ** (1/3) = 0x1.428a2f98d728bp+0, the double math pow returns
CubeRootTwo == [e |-> 0, m |-> <<12939, 9781, 2607, 1290>>]

\* steps between the ends of the frequency slider the user is taken to reach
NFreqSteps == 1

\* steps between the ends of the volume slider the user is taken to reach
NAmpSteps == 1

\* the audio range the frequency slider covers, 20Hz - 20kHz
LowestFreq == 20

HighestFreq == 20000

\* SliderMenuItem min_value / max_value of the frequency slider
freq_min_value == freq_to_slider(FromInt(LowestFreq))

freq_max_value == freq_to_slider(FromInt(HighestFreq))

FreqPositions ==
    {freq_min_value + k * ((freq_max_value - freq_min_value) \div NFreqSteps) :
        k \in 0..(NFreqSteps - 1)} \cup {freq_max_value}

\* the volume slider runs over 0.0 .. 1.0, held in thousandths
amp_min_value == 0

amp_max_value == 1000

AmpPositions ==
    {amp_min_value + (k * (amp_max_value - amp_min_value)) \div NAmpSteps :
        k \in 0..NAmpSteps}

VARIABLES
    wave_type,     \* osc.wave_type
    amplitude,     \* osc.amplitude, in thousandths
    frequency,     \* osc.frequency, a Python number
    stream,        \* osc.stream: "None", or the stream handle
    handles,       \* audio stream handles alive in the process
    device,        \* the audio output device can be acquired
    start_cb,      \* start_button has a callback
    stop_cb,       \* stop_button has a callback
    wave_cb,       \* wave type -> its button has a callback
    freq_title,    \* freq_title.title
    amp_title,     \* amp_title.title
    freq_slider,   \* freq_slider.value, units of 2^-13
    amp_slider,    \* amp_slider.value, in thousandths
    pc,            \* where the main thread is: "idle" in the run loop, or in a walk
    retain_wave,   \* local of the running walk
    retain_freq,   \* local of the running walk
    cb,            \* the callback running, or the last one run
    outcome,       \* of cb: "running", "returned", "raised"
    calls,         \* the oscillator calls cb has made, in order
    entry,         \* the oscillator settings as the walk cb found them
    arg,           \* <<the argument a helper function was applied to>>
    res            \* <<what it returned>>

vars == <<wave_type, amplitude, frequency, stream, handles, device, start_cb,
          stop_cb, wave_cb, freq_title, amp_title, freq_slider, amp_slider, pc,
          retain_wave, retain_freq, cb, outcome, calls, entry, arg, res>>

osc     == <<wave_type, amplitude, frequency>>
menu    == <<start_cb, stop_cb, wave_cb>>
titles  == <<freq_title, amp_title, freq_slider, amp_slider>>
locals  == <<retain_wave, retain_freq>>
helper  == <<arg, res>>

NoLocal == "unset"

\* the same for a local that holds a number, and for entry
NoFreq == [py |-> "unset"]

NoEntry == [wave |-> "unset"]

\* one oscillator call as the log keeps it, with the state it was made in;
\* ok: the call returned (it did not raise)
Call(op) ==
    [op |-> op, idle |-> stream = "None", freq |-> frequency, wave |-> wave_type,
     ok |-> (op = "stop" \/ stream # "None" \/ device)]

\* ------------------------------------------------------ the Oscillator ----
\* Oscillator.play(): a stream handle is opened from Idle; when the device
\* cannot be acquired it raises and the state stays Idle; a play while
\* Streaming is a no-op
PlayStream(s, dev) == IF s = "None" /\ dev THEN "Stream" ELSE s

PlayHandles(s, h, dev) == IF s = "None" /\ dev THEN h + 1 ELSE h

PlayRaises(s, dev) == s = "None" /\ ~dev

\* Oscillator.stop(): the handle is released; a stop while Idle is a no-op
StopStream(s) == "None"

\* the stop that drops the oscillator's reference and leaves the stream open
StopHandles_leak(s, h) == h

StopHandles(s, h) == IF s = "None" THEN h ELSE h - 1

\* ------------------------------------------------- menu UI methods ----

\* a run loop that took menu events while a callback is running
MainLoopReady_always == TRUE

\* the run loop takes the next menu event only when no callback is running
MainLoopReady == pc = "idle"

Enter(name) ==
    /\ MainLoopReady
    /\ cb' = name

\* menu while not playing osc
osc_ready_menu ==
    /\ start_cb' = TRUE
    /\ stop_cb' = FALSE

\* menu while playing osc
osc_busy_menu ==
    /\ start_cb' = FALSE
    /\ stop_cb' = TRUE

wave_change_menu(old_wave_type, new_wave_type) ==
    [[wave_cb EXCEPT ![new_wave_type] = FALSE] EXCEPT ![old_wave_type] = TRUE]

\* ---------------------------------------------------------- callbacks ----

start_osc ==
    /\ start_cb
    /\ Enter("start_osc")
    /\ osc_busy_menu
    /\ stream' = PlayStream(stream, device)
    /\ handles' = PlayHandles(stream, handles, device)
    /\ calls' = <<Call("play")>>
    /\ outcome' = IF PlayRaises(stream, device) THEN "raised" ELSE "returned"
    /\ entry' = NoEntry
    /\ UNCHANGED <<helper, osc, device, wave_cb, titles, pc, locals>>

stop_osc ==
    /\ stop_cb
    /\ Enter("stop_osc")
    /\ osc_ready_menu
    /\ stream' = StopStream(stream)
    /\ handles' = StopHandles(stream, handles)
    /\ calls' = <<Call("stop")>>
    /\ outcome' = "returned"
    /\ entry' = NoEntry
    /\ UNCHANGED <<helper, osc, device, wave_cb, titles, pc, locals>>

set_wave(name, w) ==
    /\ wave_cb[w]
    /\ Enter(name)
    /\ wave_cb' = wave_change_menu(wave_type, w)
    /\ wave_type' = w
    /\ calls' = <<>>
    /\ outcome' = "returned"
    /\ entry' = NoEntry
    /\ UNCHANGED <<helper, amplitude, frequency, stream, handles, device, start_cb,
                   stop_cb, titles, pc, locals>>

set_sine_wave == set_wave("set_sine_wave", "sine_wave")

set_square_wave == set_wave("set_square_wave", "square_wave")

set_white_noise == set_wave("set_white_noise", "white_noise")

set_pink_noise == set_wave("set_pink_noise", "pink_noise")

\* slider_to_freq at the slider positions, computed once
FreqOfPosition == [value \in FreqPositions |-> slider_to_freq(value)]

\* the callback that updates the title and leaves the oscillator
adj_freq_title_only ==
    /\ Enter("adj_freq")
    /\ \E value \in FreqPositions :
          /\ freq_slider' = value
          /\ freq_title' = freq_title_format(FreqOfPosition[value])
    /\ calls' = <<>>
    /\ outcome' = "returned"
    /\ entry' = NoEntry
    /\ UNCHANGED <<helper, osc, stream, handles, device, menu, amp_title,
                   amp_slider, pc, locals>>

adj_freq ==
    /\ Enter("adj_freq")
    /\ \E value \in FreqPositions :
          /\ freq_slider' = value
          /\ freq_title' = freq_title_format(FreqOfPosition[value])
          /\ frequency' = PyInt(FreqOfPosition[value])
    /\ calls' = <<>>
    /\ outcome' = "returned"
    /\ entry' = NoEntry
    /\ UNCHANGED <<helper, wave_type, amplitude, stream, handles, device, menu,
                   amp_title, amp_slider, pc, locals>>

adj_amp ==
    /\ Enter("adj_amp")
    /\ \E value \in AmpPositions :
          /\ amp_slider' = value
          /\ amp_title' = amp_title_format(value)
          /\ amplitude' = value
    /\ calls' = <<>>
    /\ outcome' = "returned"
    /\ entry' = NoEntry
    /\ UNCHANGED <<helper, wave_type, frequency, stream, handles, device, menu,
                   freq_title, freq_slider, pc, locals>>

\* ------------------------------------------------------- octave walks ----

Walks == {"octave_walk", "octave_walk_thirds"}

\* a factor that leaves the frequency where it is
Multiplier_one(name) == FromInt(1)

\* the factor of `self.osc.frequency *= ...`
Multiplier(name) ==
    IF name = "octave_walk" THEN FromInt(2) ELSE CubeRootTwo

\* a walk begun an octave lower, at 13.75
WalkStart_lower == PyFloat(FromDyadic(55, 2))

\* the walk's first frequency, 27.5
WalkStart == PyFloat(FromDyadic(55, 1))

\* the loop test written with < for <=
WalkContinues_strict(f) == ~FLe(FromInt(1760), f)

\* while self.osc.frequency <= 1760
WalkContinues(f) == FLe(f, FromInt(1760))

\* entry: stop the oscillator if it plays, remember the settings, set the
\* calibration settings
WalkEnter(name) ==
    /\ Enter(name)
    /\ IF stream # "None"
       THEN /\ osc_ready_menu
            /\ stream' = StopStream(stream)
            /\ handles' = StopHandles(stream, handles)
            /\ calls' = <<Call("stop")>>
       ELSE /\ UNCHANGED <<start_cb, stop_cb, stream, handles>>
            /\ calls' = <<>>
    /\ retain_wave' = wave_type
    /\ retain_freq' = frequency
    /\ wave_type' = "sine_wave"
    /\ frequency' = WalkStart
    /\ pc' = "walk_test"
    /\ outcome' = "running"
    /\ entry' = [wave |-> wave_type, freq |-> frequency, amp |-> amplitude]
    /\ UNCHANGED <<helper, amplitude, device, wave_cb, titles>>

octave_walk == WalkEnter("octave_walk")

octave_walk_thirds == WalkEnter("octave_walk_thirds")

\* loop test passed: self.osc.play(), then time.sleep(1)
walk_play ==
    /\ pc = "walk_test"
    /\ WalkContinues(frequency)
    /\ stream' = PlayStream(stream, device)
    /\ handles' = PlayHandles(stream, handles, device)
    /\ calls' = Append(calls, Call("play"))
    /\ IF PlayRaises(stream, device)
       THEN /\ pc' = "idle"
            /\ outcome' = "raised"
            /\ retain_wave' = NoLocal
            /\ retain_freq' = NoFreq
       ELSE /\ pc' = "walk_hold"
            /\ UNCHANGED <<outcome, locals>>
    /\ UNCHANGED <<helper, osc, device, menu, titles, cb, entry>>

\* the step that multiplies the frequency and leaves the stream playing
walk_stop_no_stop ==
    /\ pc = "walk_hold"
    /\ frequency' = PyFloat(FMul(frequency, Multiplier(cb)))
    /\ pc' = "walk_test"
    /\ UNCHANGED <<helper, wave_type, amplitude, stream, handles, device, menu,
                   titles, locals, cb, outcome, calls, entry>>

\* the hold is over: self.osc.stop(), then the frequency is multiplied
walk_stop ==
    /\ pc = "walk_hold"
    /\ stream' = StopStream(stream)
    /\ handles' = StopHandles(stream, handles)
    /\ calls' = Append(calls, Call("stop"))
    /\ frequency' = PyFloat(FMul(frequency, Multiplier(cb)))
    /\ pc' = "walk_test"
    /\ UNCHANGED <<helper, wave_type, amplitude, device, menu, titles, locals, cb,
                   outcome, entry>>

\* the return that restores the wave type and leaves the frequency
walk_return_wave_only ==
    /\ pc = "walk_test"
    /\ ~WalkContinues(frequency)
    /\ wave_type' = retain_wave
    /\ retain_wave' = NoLocal
    /\ retain_freq' = NoFreq
    /\ pc' = "idle"
    /\ outcome' = "returned"
    /\ UNCHANGED <<helper, amplitude, frequency, stream, handles, device, menu,
                   titles, cb, calls, entry>>

\* loop test failed: return to the original settings
walk_return ==
    /\ pc = "walk_test"
    /\ ~WalkContinues(frequency)
    /\ wave_type' = retain_wave
    /\ frequency' = retain_freq
    /\ retain_wave' = NoLocal
    /\ retain_freq' = NoFreq
    /\ pc' = "idle"
    /\ outcome' = "returned"
    /\ UNCHANGED <<helper, amplitude, stream, handles, device, menu, titles, cb, calls,
                   entry>>

\* --------------------------------------------------- the application ----

\* BarOscApp.__init__: the initial settings, build_menu, osc_ready_menu; the
\* machine has an audio output device that can be acquired, or has none
Init ==
    /\ wave_type = "sine_wave"
    /\ amplitude = 500
    /\ frequency = PyInt(440)
    /\ stream = "None"
    /\ handles = 0
    /\ device \in BOOLEAN
    /\ start_cb = TRUE
    /\ stop_cb = FALSE
    /\ wave_cb = [w \in WaveTypes |-> w # "sine_wave"]
    /\ freq_title = freq_title_format(440)
    /\ amp_title = amp_title_format(500)
    /\ freq_slider = freq_to_slider(FromInt(440))
    /\ amp_slider = 500
    /\ pc = "idle"
    /\ retain_wave = NoLocal
    /\ retain_freq = NoFreq
    /\ cb = "__init__"
    /\ outcome = "returned"
    /\ calls = <<>>
    /\ entry = NoEntry
    /\ arg = <<>>
    /\ res = <<>>

Next ==
    \/ start_osc
    \/ stop_osc
    \/ set_sine_wave
    \/ set_square_wave
    \/ set_white_noise
    \/ set_pink_noise
    \/ adj_freq
    \/ adj_amp
    \/ octave_walk
    \/ octave_walk_thirds
    \/ walk_play
    \/ walk_stop
    \/ walk_return

Spec == Init /\ [][Next]_vars

\* the main thread goes on through a walk: a play, a hold (time.sleep) or a
\* stop that was entered returns, and the statement after it is executed.
\* The last conjunct is WF_vars(walk_stop) written out: walk_stop is enabled
\* exactly when pc = "walk_hold", and every walk_stop step leaves walk_hold
SpecFair ==
    /\ Spec
    /\ WF_vars(walk_play)
    /\ WF_vars(walk_return)
    /\ []<>(pc # "walk_hold")

\* ---------------------------------- the slider mapping on its own ----

\* the frequency grid: multiples of 2^-GridBits Hz
GridBits == 1

GridFreqs ==
    {FromDyadic(n, GridBits) :
        n \in (LowestFreq * Pow2Int(GridBits))..(HighestFreq * Pow2Int(GridBits))}

InitRoundTrip ==
    /\ Init
    /\ device = TRUE

\* slider_to_freq(freq_to_slider(f)) for a frequency f of the grid
round_trip ==
    /\ res = <<>>
    /\ \E f \in GridFreqs :
          /\ arg' = <<f>>
          /\ res' = <<slider_to_freq(freq_to_slider(f))>>
    /\ UNCHANGED <<osc, stream, handles, device, menu, titles, pc, locals, cb,
                   outcome, calls, entry>>

SpecRoundTrip == InitRoundTrip /\ [][round_trip]_vars

\* ------------------------------------ the title formats on their own ----

\* amplitudes below zero are taken down to -NegAmps thousandths
NegAmps == 200

\* amplitudes above the slider's range are taken up to 1.0 + OverAmps thousandths
OverAmps == 200

TitleAmps == (amp_min_value - NegAmps)..(amp_max_value + OverAmps)

\* amp_title_format(amp) for an amplitude of TitleAmps
format_amp_title ==
    /\ res = <<>>
    /\ \E amp \in TitleAmps :
          /\ arg' = <<amp>>
          /\ res' = <<amp_title_format(amp)>>
    /\ UNCHANGED <<osc, stream, handles, device, menu, titles, pc, locals, cb,
                   outcome, calls, entry>>

SpecAmpTitle == InitRoundTrip /\ [][format_amp_title]_vars

\* the integer frequencies the application shows
TitleFreqs == LowestFreq..HighestFreq

\* freq_title_format(freq) for a frequency of TitleFreqs
format_freq_title ==
    /\ res = <<>>
    /\ \E freq \in TitleFreqs :
          /\ arg' = <<freq>>
          /\ res' = <<freq_title_format(freq)>>
    /\ UNCHANGED <<osc, stream, handles, device, menu, titles, pc, locals, cb,
                   outcome, calls, entry>>

SpecFreqTitle == InitRoundTrip /\ [][format_freq_title]_vars

\* -------------------------------------------------------- properties ----

IsPlayed(c) == c.op = "play" /\ c.ok /\ c.idle

\* the steps cb has played: the plays that opened a stream
Played == SelectSeq(calls, IsPlayed)

IsPrefix(s, t) == Len(s) <= Len(t) /\ \A i \in 1..Len(s) : s[i] = t[i]

\* 27.5, 55, 110, 220, 440, 880, 1760
OctaveFreqs == [k \in 1..7 |-> PyFloat(FromDyadic(55 * Pow2Int(k - 1), 1))]

OctaveSteps ==
    [k \in 1..7 |-> [op |-> "play", idle |-> TRUE, freq |-> OctaveFreqs[k],
                     wave |-> "sine_wave", ok |-> TRUE]]

\* C1: an octave_walk call plays 27.5, 55, 110, 220, 440, 880, 1760 Hz in that
\* order, once each, every step as a sine wave, and nothing else: what it has
\* played so far is always a beginning of that list, and all of it at return
C1_OctaveWalkSteps ==
    cb = "octave_walk" =>
        /\ IsPrefix(Played, OctaveSteps)
        /\ outcome = "returned" => Played = OctaveSteps

\* an octave walk asked for while a square wave was streaming has returned
C1_Witness ==
    /\ cb = "octave_walk"
    /\ outcome = "returned"
    /\ Len(Played) = 7
    /\ entry.wave = "square_wave"
    /\ calls[1].op = "stop"

\* C2: when octave_walk or octave_walk_thirds returns, the oscillator's wave
\* type and frequency are those it had before the call, and the amplitude is
\* never written while the walk runs
C2_WalkRestores ==
    cb \in Walks =>
        /\ amplitude = entry.amp
        /\ outcome = "returned" =>
              /\ wave_type = entry.wave
              /\ frequency = entry.freq

\* a 1/3 octave walk asked for with pink noise at 20 kHz and full volume has
\* returned
C2_Witness ==
    /\ cb = "octave_walk_thirds"
    /\ outcome = "returned"
    /\ Len(Played) > 0
    /\ entry = [wave |-> "pink_noise", freq |-> PyInt(20000), amp |-> 1000]

\* C3: octave_walk_thirds plays 19 steps, the first at 27.5 Hz, each next one
\* at the previous frequency times 2^(1/3), the last at 1760 Hz, none above
C3_ThirdsWalkSteps ==
    cb = "octave_walk_thirds" =>
        /\ Len(Played) <= 19
        /\ Len(Played) >= 1 => Played[1].freq = WalkStart
        /\ \A i \in 1..Len(Played) :
              /\ FLe(Played[i].freq, FromInt(1760))
              /\ Played[i].wave = "sine_wave"
              /\ i > 1 => Played[i].freq = PyFloat(FMul(Played[i - 1].freq, CubeRootTwo))
        /\ outcome = "returned" =>
              /\ Len(Played) = 19
              /\ Played[19].freq = PyFloat(FromInt(1760))

\* a 1/3 octave walk has returned, its 7th step played at 110 Hz
C3_Witness ==
    /\ cb = "octave_walk_thirds"
    /\ outcome = "returned"
    /\ Len(Played) = 19
    /\ Played[7].freq = PyFloat(FromInt(110))

\* C4: at most one audio stream handle is alive, and none is alive that the
\* oscillator does not hold (no handle is leaked)
C4_OneStreamHandle ==
    /\ handles <= 1
    /\ handles = (IF stream = "None" THEN 0 ELSE 1)

\* a walk asked for while the oscillator streamed holds a step's stream
C4_Witness ==
    /\ cb \in Walks
    /\ pc = "walk_hold"
    /\ Len(calls) > 2
    /\ calls[1].op = "stop"
    /\ handles = 1

\* C5: the application calls the oscillator's play only when it is Idle and
\* its stop only when it is Streaming, in Start/Stop and in the walks
C5_LegalCalls ==
    \A i \in 1..Len(calls) :
        /\ calls[i].op = "play" => calls[i].idle
        /\ calls[i].op = "stop" => ~calls[i].idle

\* C6: when the oscillator's play raises in Start Oscillator, no stream is
\* alive, Start has its callback and Stop has none, and the error reaches the
\* caller
C6_FailedStartLeavesIdle ==
    (cb = "start_osc" /\ ~calls[1].ok) =>
        /\ stream = "None"
        /\ handles = 0
        /\ outcome = "raised"
        /\ start_cb
        /\ ~stop_cb

\* C7: while a walk runs no other callback is entered: every step taken
\* between the walk's entry and its return is the walk's own
C7_WalkSoleOwner ==
    [][pc # "idle" =>
          /\ cb \in Walks
          /\ cb' = cb
          /\ (stream' # stream \/ handles' # handles) => Len(calls') = Len(calls) + 1]_vars

\* a walk holds a step while the Start item has its callback
C7_Witness ==
    /\ pc = "walk_hold"
    /\ cb = "octave_walk"
    /\ start_cb
    /\ stream # "None"

Setters ==
    {"adj_freq", "adj_amp", "set_sine_wave", "set_square_wave", "set_white_noise",
     "set_pink_noise"}

WaveOf(name) ==
    CASE name = "set_sine_wave"   -> "sine_wave"
      [] name = "set_square_wave" -> "square_wave"
      [] name = "set_white_noise" -> "white_noise"
      [] name = "set_pink_noise"  -> "pink_noise"

\* C8: the slider and wave type callbacks are taken by the run loop whether
\* the oscillator is Idle or Streaming; each writes its value to the
\* oscillator in the same callback and none changes the stream or which of
\* Start and Stop has a callback
C8_SettersWriteAndKeepState ==
    [][/\ pc = "idle" =>
             /\ ENABLED adj_freq
             /\ ENABLED adj_amp
             /\ \A w \in WaveTypes \ {wave_type} :
                   wave_cb[w] => ENABLED set_wave("set", w)
       /\ cb' \in Setters =>
             /\ stream' = stream
             /\ handles' = handles
             /\ start_cb' = start_cb
             /\ stop_cb' = stop_cb
             /\ cb' = "adj_freq" => frequency' = PyInt(slider_to_freq(freq_slider'))
             /\ cb' = "adj_amp" => amplitude' = amp_slider'
             /\ cb' \notin {"adj_freq", "adj_amp"} => wave_type' = WaveOf(cb')]_vars

\* the frequency slider was moved to its lowest position while streaming
C8_Witness ==
    /\ cb = "adj_freq"
    /\ stream # "None"
    /\ stop_cb
    /\ frequency = PyInt(20)

\* C9: in every state, those inside a running walk included, the oscillator's
\* frequency is in [20, 20000] Hz and its amplitude in [0.0, 1.0]
C9_RangeInvariant ==
    /\ FLe(FromInt(20), frequency)
    /\ FLe(frequency, FromInt(20000))
    /\ amplitude >= 0
    /\ amplitude <= 1000

\* a walk's loop has ended and the frequency, past 1760 Hz, is not restored yet
C9_Witness ==
    /\ pc = "walk_test"
    /\ ~WalkContinues(frequency)
    /\ cb = "octave_walk"

\* C10: for every frequency f in [20, 20000], slider_to_freq(freq_to_slider(f))
\* is round(f) within 1 Hz
C10_SliderRoundTrip ==
    res # <<>> =>
        /\ res[1] - Round(arg[1]) <= 1
        /\ Round(arg[1]) - res[1] <= 1

\* the round trip of 19999.5 Hz, a frequency between two integers
C10_Witness ==
    /\ res # <<>>
    /\ arg[1] = FromDyadic(39999, 1)
    /\ res[1] \in {19999, 20000}

\* the amplitudes, in thousandths, whose level 20 log10(amp) is nearer to 0.0
\* than to -0.1 or 0.1
RoundsToZero == 995..1005

\* C11: amp_title_format returns a title for every amplitude: for amp <= 0 the
\* title "Volume: -inf dBFS" with the infinity sentinel (the math domain
\* error is not propagated), and "Volume: -0.0 dBFS" whenever the rounded
\* level is zero, amp = 1.0 included
C11_AmpTitleTotal ==
    res # <<>> =>
        /\ arg[1] <= 0 => res[1] = "Volume: -inf dBFS"
        /\ arg[1] \in RoundsToZero => res[1] = "Volume: -0.0 dBFS"

\* the title of the amplitude 1.0, whose level is the positive zero
C11_Witness ==
    /\ res # <<>>
    /\ arg[1] = 1000
    /\ res[1] = "Volume: -0.0 dBFS"

\* "Frequency: a.b kHz" for t = 10 a + b tenths of a kHz
KiloHertzTitle(t) ==
    "Frequency: " \o ToString(t \div 10) \o "." \o ToString(t % 10) \o " kHz"

\* C12: freq_title_format of an integer freq below 10000 is "Frequency: freq
\* Hz" with the integer as it is; from 10000 on, 10000 included, it is the
\* value in kHz with one decimal, a tenth nearest to freq / 1000; 440 gives
\* "Frequency: 440 Hz" and 15000 gives "Frequency: 15.0 kHz"
C12_FreqTitle ==
    res # <<>> =>
        LET freq == arg[1]
        IN  /\ freq < 10000 => res[1] = "Frequency: " \o ToString(freq) \o " Hz"
            /\ freq >= 10000 =>
                  \E t \in (freq \div 100)..(freq \div 100 + 1) :
                      /\ 100 * t - freq <= 50
                      /\ freq - 100 * t <= 50
                      /\ res[1] = KiloHertzTitle(t)
            /\ freq = 440 => res[1] = "Frequency: 440 Hz"
            /\ freq = 15000 => res[1] = "Frequency: 15.0 kHz"

\* the title of 10000 Hz, the first frequency shown in kHz
C12_Witness ==
    /\ res # <<>>
    /\ arg[1] = 10000
    /\ res[1] = "Frequency: 10.0 kHz"

\* the oscillator calls of the walk cb after the stop it may begin with
WalkBody == IF calls # <<>> /\ calls[1].op = "stop" THEN Tail(calls) ELSE calls

\* C13: in a walk, after the stop it may begin with, the oscillator calls
\* alternate play, stop, play, stop, ..., the first a play and, when the walk
\* returns, the last a stop; the walk writes the oscillator's frequency and
\* wave type only with no stream alive
C13_WalkAlternates ==
    [][cb' \in Walks =>
          /\ \A i \in 1..Len(WalkBody') :
                WalkBody'[i].op = (IF i % 2 = 1 THEN "play" ELSE "stop")
          /\ outcome' = "returned" =>
                /\ Len(WalkBody') > 0
                /\ Len(WalkBody') % 2 = 0
          /\ (frequency' # frequency \/ wave_type' # wave_type) =>
                stream' = "None"]_vars

\* a 1/3 octave walk that began with a stop has returned after its 19 plays
\* and 19 stops
C13_Witness ==
    /\ cb = "octave_walk_thirds"
    /\ outcome = "returned"
    /\ Len(calls) = 39
    /\ calls[1].op = "stop"
    /\ calls[39].op = "stop"

\* C14: a walk that was started runs to completion when every play returns
\* (the device can be acquired): each step leaves the frequency higher than it
\* was, the loop ends, and the walk returns with no stream alive, whether the
\* oscillator was Idle or Streaming when the walk was asked for
C14_WalkCompletes ==
    /\ [][pc = "walk_hold" =>
             /\ FLe(frequency, frequency')
             /\ frequency' # frequency]_vars
    /\ (device /\ pc # "idle") ~>
           (pc = "idle" /\ cb \in Walks /\ outcome = "returned" /\ stream = "None")

\* a walk asked for while the oscillator streamed has returned and left it
\* Idle, Start having its callback
C14_Witness ==
    /\ cb \in Walks
    /\ pc = "idle"
    /\ outcome = "returned"
    /\ calls[1].op = "stop"
    /\ stream = "None"
    /\ start_cb

\* C15: between callbacks exactly one of Start and Stop has a callback: Start
\* has it and Stop has none iff the oscillator is Idle, Stop has it and Start
\* has none iff it is Streaming
C15_StartStopMatchState ==
    pc = "idle" =>
        /\ start_cb # stop_cb
        /\ start_cb <=> stream = "None"
        /\ stop_cb <=> stream # "None"

\* C16: between callbacks exactly one of the four wave type items has no
\* callback, and it is the item of the oscillator's wave type, so the
\* current wave type cannot be selected again
C16_WaveItemMatchesType ==
    pc = "idle" =>
        /\ Cardinality({w \in WaveTypes : ~wave_cb[w]}) = 1
        /\ ~wave_cb[wave_type]

\* C17: between callbacks the titles show the oscillator's settings: the
\* frequency title is freq_title_format of its frequency and the volume title
\* amp_title_format of its amplitude.  Every title is made from an int (440,
\* or what slider_to_freq rounds to), and the title of a float always has a
\* decimal point, so a float frequency below 10 kHz matches no title
C17_TitlesMatchOscillator ==
    pc = "idle" =>
        /\ frequency.py = "int"
        /\ freq_title = freq_title_format(Round(frequency))
        /\ amp_title = amp_title_format(amplitude)

====
